---- MODULE Spec2Model ----
(***************************************************************************)
(* A model of start_services.py: the bootstrap script that syncs the       *)
(* Supabase repository, provisions the SearXNG secret, toggles the         *)
(* cap_drop hardening of the searxng service in docker-compose.yml,        *)
(* rewrites the Supabase Realtime health check and then stops and starts   *)
(* the two compose stacks.                                                 *)
(*                                                                         *)
(* Text is modelled as text: a file read with readlines() is a sequence of *)
(* strings that keep their "\n", a file read with read() is one string,    *)
(* and the Python string methods the script uses (in, find, replace,       *)
(* strip, lstrip, startswith) are operators over the characters.           *)
(***************************************************************************)
EXTENDS Integers, Sequences, FiniteSets, TLC

(***************************************************************************)
(* Python string primitives.                                               *)
(***************************************************************************)

\* The characters str.strip() and str.lstrip() remove, among those a string
\* of the model can hold: space, tab, line feed, carriage return, form feed,
\* and (written as the characters themselves) vertical tab, the four
\* separators 0x1c to 0x1f, next line (0x85), no-break space (0xa0) and the
\* Ogham space mark (0x1680).  The spaces from 0x2000 on cannot be written
\* in a string of the model.
IsSpace(c) ==
    c \in {" ", "\t", "\n", "\r", "\f", "", "", "", "", "",
           "", " ", " "}

\* The i-th character of s, 0-based as in Python.
CharAt(s, i) == SubSeq(s, i + 1, i + 1)

\* s[a:b] for 0 <= a <= b <= len(s).
Slice(s, a, b) == SubSeq(s, a + 1, b)

\* sub in s
Contains(s, sub) ==
    \E i \in 0..(Len(s) - Len(sub)) : Slice(s, i, i + Len(sub)) = sub

\* The least member of a non-empty set of integers.
MinOf(S) == CHOOSE m \in S : \A n \in S : m <= n

\* s.find(sub, start): the lowest 0-based index at or after start where sub
\* occurs, -1 when there is none.  A negative start counts from the end.
Find(s, sub, start) ==
    LET from == IF start < 0
                THEN (IF Len(s) + start < 0 THEN 0 ELSE Len(s) + start)
                ELSE start
        hits == {i \in from..(Len(s) - Len(sub)) : Slice(s, i, i + Len(sub)) = sub}
    IN  IF hits = {} THEN -1 ELSE MinOf(hits)

\* s.replace(old, new) for a non-empty old: every non-overlapping occurrence,
\* left to right.
RECURSIVE Replace(_, _, _)
Replace(s, old, new) ==
    LET i == Find(s, old, 0)
    IN  IF i = -1
        THEN s
        ELSE Slice(s, 0, i) \o new
               \o Replace(Slice(s, i + Len(old), Len(s)), old, new)

\* len(line) - len(line.lstrip()): the number of leading whitespace characters.
LeadingSpace(line) ==
    LET solid == {i \in 0..(Len(line) - 1) : ~IsSpace(CharAt(line, i))}
    IN  IF solid = {} THEN Len(line) ELSE MinOf(solid)

\* bool(line.strip()): the line has a character that is not whitespace.
StripNonEmpty(line) == \E i \in 0..(Len(line) - 1) : ~IsSpace(CharAt(line, i))

\* line.strip().startswith('#')
StripStartsWithHash(line) ==
    /\ StripNonEmpty(line)
    /\ CharAt(line, LeadingSpace(line)) = "#"

(***************************************************************************)
(* check_and_fix_docker_compose_for_searxng: the first-run classification  *)
(* and the cap_drop toggle.                                                *)
(***************************************************************************)

ServiceMarker == "searxng:"
KeyToken      == "cap_drop:"
ValueToken    == "- ALL"
KeyCommented  == "# cap_drop: # Temporarily commented out for first run"
ValueCommented == "# - ALL # Temporarily commented out for first run"

\* What a subprocess.run call gave: an exception, or the captured stdout.
\* ran is FALSE for a call the function never made.
CmdResult(ran, raised, stdout) == [ran |-> ran, raised |-> raised, stdout |-> stdout]
NotRun == CmdResult(FALSE, FALSE, "")

\* any(container for container in stdout.strip().split('\n') if container):
\* the stripped output has a non-empty first field exactly when it is not empty.
ContainerFound(ps) == StripNonEmpty(ps.stdout)

\* The test the function applies to the probe's output.
ProbeSaysFound(stdout) == Contains(stdout, "found")

\* is_first_run after the try block: TRUE by default and after any exception,
\* FALSE only through the branch that tests the probe's output.
IsFirstRun(ps, probe) ==
    IF ps.raised THEN TRUE
    ELSE IF ~ContainerFound(ps) THEN TRUE
    ELSE IF probe.raised THEN TRUE
    ELSE ~ProbeSaysFound(probe.stdout)

\* The loop variables of the first pass; indexes are 0-based with -1 for none,
\* stopped records the break.
ScanStart ==
    [in_searxng_section |-> FALSE, searxng_section_indent |-> 0,
     cap_drop_line_index |-> -1, cap_drop_value_line_index |-> -1,
     stopped |-> FALSE]

\* One iteration of the first pass over line number i.
ScanLine(st, i, line) ==
    IF st.stopped THEN st
    ELSE IF Contains(line, ServiceMarker) /\ ~st.in_searxng_section
    THEN [st EXCEPT !.in_searxng_section = TRUE,
                    !.searxng_section_indent = LeadingSpace(line)]
    ELSE IF ~st.in_searxng_section THEN st
    ELSE IF StripNonEmpty(line) /\ LeadingSpace(line) <= st.searxng_section_indent
    THEN [st EXCEPT !.in_searxng_section = FALSE]
    ELSE IF Contains(line, KeyToken) /\ ~StripStartsWithHash(line)
    THEN [st EXCEPT !.cap_drop_line_index = i]
    ELSE IF /\ st.cap_drop_line_index # -1
            /\ Contains(line, ValueToken)
            /\ ~StripStartsWithHash(line)
    THEN [st EXCEPT !.cap_drop_value_line_index = i, !.stopped = TRUE]
    ELSE st

RECURSIVE ScanFrom(_, _, _)
ScanFrom(lines, i, st) ==
    IF i >= Len(lines) THEN st
    ELSE ScanFrom(lines, i + 1, ScanLine(st, i, lines[i + 1]))

\* The first pass: where the active key line and value line were found.
FirstPass(lines) == ScanFrom(lines, 0, ScanStart)

\* The value line left as it is.
CommentValueLine_Skipped(line) == line

\* The first-run rewrite of the two located lines.
CommentKeyLine(line) == Replace(line, KeyToken, KeyCommented)

CommentValueLine(line) == Replace(line, ValueToken, ValueCommented)

CommentOut(lines, k, v) ==
    [i \in 1..Len(lines) |->
        IF i = k + 1 THEN CommentKeyLine(lines[i])
        ELSE IF i = v + 1 THEN CommentValueLine(lines[i])
        ELSE lines[i]]

\* The not-first-run rewrite without its elif branch: only the key form is
\* restored.
UncommentLine_KeyOnly(line) ==
    IF Contains(line, KeyCommented) THEN Replace(line, KeyCommented, KeyToken)
    ELSE line

\* The not-first-run rewrite of one line: the key form is tried first, the
\* value form only on a line without the key form.
UncommentLine(line) ==
    IF Contains(line, KeyCommented) THEN Replace(line, KeyCommented, KeyToken)
    ELSE IF Contains(line, ValueCommented) THEN Replace(line, ValueCommented, ValueToken)
    ELSE line

Uncomment(lines) == [i \in 1..Len(lines) |-> UncommentLine(lines[i])]

\* commented_cap_drop_found or commented_all_found
CommentedFound(lines) ==
    \E i \in 1..Len(lines) :
        Contains(lines[i], KeyCommented) \/ Contains(lines[i], ValueCommented)

\* The second pass without the not-first-run branch: commented lines are
\* never restored.
SecondPass_NoRestore(lines, first_run) ==
    LET st == FirstPass(lines)
    IN  IF /\ first_run
           /\ st.cap_drop_line_index # -1
           /\ st.cap_drop_value_line_index # -1
        THEN [lines |-> CommentOut(lines, st.cap_drop_line_index,
                                   st.cap_drop_value_line_index),
              wrote |-> TRUE]
        ELSE [lines |-> lines, wrote |-> FALSE]

\* The second pass: the lines afterwards and whether the file was written.
SecondPass(lines, first_run) ==
    LET st == FirstPass(lines)
    IN  IF /\ first_run
           /\ st.cap_drop_line_index # -1
           /\ st.cap_drop_value_line_index # -1
        THEN [lines |-> CommentOut(lines, st.cap_drop_line_index,
                                   st.cap_drop_value_line_index),
              wrote |-> TRUE]
        ELSE IF ~first_run /\ CommentedFound(lines)
        THEN [lines |-> Uncomment(lines), wrote |-> TRUE]
        ELSE [lines |-> lines, wrote |-> FALSE]

(***************************************************************************)
(* fix_supabase_realtime_healthcheck: the health-check block rewriter.     *)
(***************************************************************************)

ObsoletePath   == "/api/tenants/realtime-dev/health"
HealthMarker   == "healthcheck:"
RealtimeName   == "realtime-dev.supabase-realtime"
EnvMarker      == "environment:"
RootUrl        == "\"http://localhost:4000/\""

new_healthcheck ==
    "healthcheck:\n"
    \o "      test:\n"
    \o "        [\n"
    \o "          \"CMD\",\n"
    \o "          \"curl\",\n"
    \o "          \"-sSfL\",\n"
    \o "          \"--head\",\n"
    \o "          \"-o\",\n"
    \o "          \"/dev/null\",\n"
    \o "          \"http://localhost:4000/\"\n"
    \o "        ]\n"
    \o "      timeout: 5s\n"
    \o "      interval: 5s\n"
    \o "      retries: 3\n"

\* The condition under which the function goes looking for the block.
Triggered(content) ==
    /\ Contains(content, ObsoletePath)
    /\ Contains(content, "healthcheck")
    /\ Contains(content, RealtimeName)

healthcheck_start(content) ==
    Find(content, HealthMarker, Find(content, RealtimeName, 0))

environment_start(content) ==
    Find(content, EnvMarker, healthcheck_start(content))

\* content[healthcheck_start:environment_start]
healthcheck_section(content) ==
    Slice(content, healthcheck_start(content), environment_start(content))

\* The whole function on the text of the file: the text afterwards, whether
\* the file was written, and which of the three messages was printed.
FixHealthcheck(content) ==
    IF ~Triggered(content)
    THEN [content |-> content, wrote |-> FALSE, outcome |-> "not_applicable"]
    ELSE IF healthcheck_start(content) # -1 /\ environment_start(content) # -1
    THEN [content |-> Replace(content, healthcheck_section(content), new_healthcheck),
          wrote |-> TRUE, outcome |-> "rewritten"]
    ELSE [content |-> content, wrote |-> FALSE, outcome |-> "markers_missing"]

(***************************************************************************)
(* generate_searxng_secret_key: the secret provisioning.  The settings     *)
(* file is a sequence of lines without their terminators, which is what    *)
(* sed's pattern space and PowerShell's Get-Content hand to the            *)
(* substitution.                                                           *)
(***************************************************************************)

Placeholder == "ultrasecretkey"

\* openssl rand -hex 32, and the PowerShell "{0:x2}" join of 32 bytes: 64
\* lower-case hexadecimal digits.  Two of the possible draws.
KeyA == "00112233445566778899aabbccddeeff00112233445566778899aabbccddeeff"
KeyB == "fedcba9876543210fedcba9876543210fedcba9876543210fedcba9876543210"
Keys == {KeyA, KeyB}

\* s.replace(old, new, 1): the first occurrence only.
ReplaceFirst(s, old, new) ==
    LET i == Find(s, old, 0)
    IN  IF i = -1 THEN s
        ELSE Slice(s, 0, i) \o new \o Slice(s, i + Len(old), Len(s))

\* The sed command without its g flag: the first occurrence on each line.
SedSubstitute_FirstOnly(lines, key) ==
    [i \in 1..Len(lines) |-> ReplaceFirst(lines[i], Placeholder, key)]

\* sed "s|ultrasecretkey|<key>|g": every occurrence on every line, matched
\* exactly.
SedSubstitute(lines, key) ==
    [i \in 1..Len(lines) |-> Replace(lines[i], Placeholder, key)]

\* The upper-case form of a letter of the placeholder (any other character
\* is returned as it is).
UpperOf(c) ==
    CASE c = "u" -> "U" [] c = "l" -> "L" [] c = "t" -> "T" [] c = "r" -> "R"
      [] c = "a" -> "A" [] c = "s" -> "S" [] c = "e" -> "E" [] c = "c" -> "C"
      [] c = "k" -> "K" [] c = "y" -> "Y" [] OTHER -> c

\* PowerShell's -replace matches without regard to case: whether the
\* placeholder occurs at 0-based index i of s in any mix of cases.
MatchesNoCaseAt(s, i) ==
    /\ i + Len(Placeholder) <= Len(s)
    /\ \A j \in 0..(Len(Placeholder) - 1) :
          \/ CharAt(s, i + j) = CharAt(Placeholder, j)
          \/ CharAt(s, i + j) = UpperOf(CharAt(Placeholder, j))

RECURSIVE ReplaceNoCase(_, _)
ReplaceNoCase(s, key) ==
    LET hits == {i \in 0..(Len(s) - Len(Placeholder)) : MatchesNoCaseAt(s, i)}
    IN  IF hits = {}
        THEN s
        ELSE LET i == MinOf(hits)
             IN  Slice(s, 0, i) \o key
                   \o ReplaceNoCase(Slice(s, i + Len(Placeholder), Len(s)), key)

\* (Get-Content f) -replace 'ultrasecretkey', $secretKey | Set-Content f
PowerShellSubstitute(lines, key) ==
    [i \in 1..Len(lines) |-> ReplaceNoCase(lines[i], key)]

\* The substitution of the branch the platform selects.
Substitute(system, lines, key) ==
    IF system = "Windows"
    THEN PowerShellSubstitute(lines, key)
    ELSE SedSubstitute(lines, key)

(***************************************************************************)
(* The files the script may find.  Each is a file a user of the repository *)
(* can have on disk; the names say what each one exercises.                *)
(***************************************************************************)

\* docker-compose.yml with the directive active, as the repository ships it.
ComposeBasic ==
    << "services:\n",
       "  searxng:\n",
       "    image: docker.io/searxng/searxng:latest\n",
       "    volumes:\n",
       "      - ./searxng:/etc/searxng:rw\n",
       "    cap_drop:\n",
       "      - ALL\n",
       "    cap_add:\n",
       "      - CHOWN\n",
       "  ollama:\n",
       "    image: ollama/ollama:latest\n" >>

\* The same file as an earlier first run left it.
ComposeCommented ==
    << "services:\n",
       "  searxng:\n",
       "    image: docker.io/searxng/searxng:latest\n",
       "    volumes:\n",
       "      - ./searxng:/etc/searxng:rw\n",
       "    # cap_drop: # Temporarily commented out for first run\n",
       "      # - ALL # Temporarily commented out for first run\n",
       "    cap_add:\n",
       "      - CHOWN\n",
       "  ollama:\n",
       "    image: ollama/ollama:latest\n" >>

\* Trailing comments on both lines, a blank line between them, and a
\* hardened service ahead of searxng.
ComposeAnnotated ==
    << "services:\n",
       "  redis:\n",
       "    cap_drop:\n",
       "      - ALL\n",
       "  searxng:\n",
       "    cap_drop: # no capabilities\n",
       "\n",
       "      - ALL # drop everything\n",
       "    logging:\n",
       "      driver: json-file\n" >>

\* A later service whose name ends in the marker text, hardened too.
ComposeShadow ==
    << "services:\n",
       "  searxng:\n",
       "    cap_drop:\n",
       "      - ALL\n",
       "  ollama:\n",
       "    image: ollama/ollama:latest\n",
       "  redis-searxng:\n",
       "    cap_drop:\n",
       "      - ALL\n" >>

ComposeFiles == {ComposeBasic, ComposeCommented, ComposeAnnotated, ComposeShadow}

\* supabase/docker/docker-compose.yml with the obsolete health check, in the
\* order upstream writes the keys.
SupabaseObsolete ==
    "  realtime:\n"
    \o "    container_name: realtime-dev.supabase-realtime\n"
    \o "    healthcheck:\n"
    \o "      test: [\"CMD\", \"curl\", \"-H\", \"Authorization: Bearer k\", "
    \o "\"http://localhost:4000/api/tenants/realtime-dev/health\"]\n"
    \o "      retries: 3\n"
    \o "    environment:\n"
    \o "      PORT: 4000\n"

\* No authenticated endpoint in it.
SupabaseClean ==
    "  realtime:\n"
    \o "    container_name: realtime-dev.supabase-realtime\n"
    \o "    healthcheck:\n"
    \o "      test: [\"CMD\", \"curl\", \"http://localhost:4000/\"]\n"
    \o "    environment:\n"
    \o "      PORT: 4000\n"

\* The realtime service lists its health check before its container name,
\* and another service follows.
SupabaseReordered ==
    "  realtime:\n"
    \o "    healthcheck:\n"
    \o "      test: [\"CMD\", \"curl\", "
    \o "\"http://localhost:4000/api/tenants/realtime-dev/health\"]\n"
    \o "    container_name: realtime-dev.supabase-realtime\n"
    \o "    environment:\n"
    \o "      PORT: 4000\n"
    \o "  storage:\n"
    \o "    healthcheck:\n"
    \o "      test: [\"CMD\", \"wget\", \"http://storage:5000/status\"]\n"
    \o "    environment:\n"
    \o "      REGION: local\n"

\* The obsolete health check is the last block of the file: no environment
\* key follows it.
SupabaseNoEnv ==
    "  realtime:\n"
    \o "    container_name: realtime-dev.supabase-realtime\n"
    \o "    environment:\n"
    \o "      PORT: 4000\n"
    \o "    healthcheck:\n"
    \o "      test: [\"CMD\", \"curl\", "
    \o "\"http://localhost:4000/api/tenants/realtime-dev/health\"]\n"

SupabaseFiles == {SupabaseObsolete, SupabaseClean, SupabaseReordered, SupabaseNoEnv}

\* searxng/settings-base.yml: the placeholder twice on one line and once in
\* another spelling.
SettingsBase ==
    << "use_default_settings: true",
       "server:",
       "  secret_key: \"ultrasecretkey\"  # replace ultrasecretkey!",
       "  # UltraSecretKey is a placeholder",
       "  limiter: false" >>

\* searxng/settings.yml as an earlier run on Linux left it.
SettingsKeyed == SedSubstitute(SettingsBase, KeyA)

\* A file on disk: whether it exists, and its text.
File(exists, text) == [exists |-> exists, text |-> text]
Absent(empty) == File(FALSE, empty)

Systems == {"Windows", "Darwin", "Linux"}

\* What docker ps can give: an exception (docker missing or not running,
\* check=True), no name, one name.
PsResults ==
    { CmdResult(TRUE, TRUE, ""),
      CmdResult(TRUE, FALSE, ""),
      CmdResult(TRUE, FALSE, "searxng\n") }

\* What docker exec can give: an exception, one of the two words the shell
\* command echoes, or nothing (the exec failed; check=False).
ProbeResults ==
    { CmdResult(TRUE, TRUE, ""),
      CmdResult(TRUE, FALSE, "found\n"),
      CmdResult(TRUE, FALSE, "not_found\n"),
      CmdResult(TRUE, FALSE, "") }

(***************************************************************************)
(* State.                                                                  *)
(***************************************************************************)

VARIABLES
    pc,               \* the statement of main() to execute next
    trace,            \* the steps of main() executed so far, with their outcome
    system,           \* platform.system() of the host
    repo,             \* "absent": no supabase directory; "ready": supabase/docker
                      \* is there; "partial": supabase without docker
    supabase_compose, \* supabase/docker/docker-compose.yml on disk
    supabase_env,     \* supabase/docker/.env is on disk (never under git)
    supabase_head,    \* the tree of the commit HEAD of supabase names
    supabase_index,   \* what git's index of supabase holds of that tree
    sparse_checkout,  \* the sparse-checkout setting of supabase
    settings_base,    \* searxng/settings-base.yml
    settings,         \* searxng/settings.yml
    compose,          \* docker-compose.yml
    secret_log,       \* the last calls of generate_searxng_secret_key
    toggle_log,       \* the last calls of the compose toggle that read the file
    health_log        \* the last calls of the rewriter that read the file

\* What git keeps of the supabase directory.
git == << supabase_head, supabase_index, sparse_checkout >>

vars == << pc, trace, system, repo, supabase_compose, supabase_env, git,
           settings_base, settings, compose, secret_log, toggle_log, health_log >>

files == << repo, supabase_compose, supabase_env, git, settings_base, settings,
            compose >>
logs  == << secret_log, toggle_log, health_log >>

\* The number of calls a log keeps.
LogDepth == 2

\* A log keeps the last LogDepth calls.
Push(log, entry) ==
    IF Len(log) < LogDepth THEN Append(log, entry) ELSE Append(Tail(log), entry)

\* The last call and the one before it.
Last(log) == log[Len(log)]
Prev(log) == log[Len(log) - 1]

\* The number of git commands clone_supabase_repo runs for a fresh clone.
CloneCommands == 4

\* A tree, as far as the script depends on it: docker says that the other
\* files of docker/ are there, compose is docker/docker-compose.yml.
Tree(docker, file) == [docker |-> docker, compose |-> file]
EmptyTree == Tree(FALSE, Absent(""))

\* What the master branch of the upstream repository may hold: no docker
\* directory, a docker directory without the compose file, or one with it.
UpstreamTrees ==
    {EmptyTree}
    \cup {Tree(TRUE, c) :
             c \in {Absent("")} \cup {File(TRUE, f) : f \in SupabaseFiles}}

\* The sparse-checkout setting after the first n commands of a fresh clone:
\* none after git clone, the files of the top directory only after
\* sparse-checkout init --cone, those and docker/ after sparse-checkout set.
SparseAfter(n) == IF n = 1 THEN "off" ELSE IF n = 2 THEN "top" ELSE "docker"

\* git writes the files of docker/ to disk.
InCone(sparse) == sparse # "top"

\* The supabase directory: what git keeps and what is on disk.
Supabase(head, index, sparse, file, env) ==
    [exists |-> TRUE, head |-> head, index |-> index, sparse |-> sparse,
     compose |-> file, env |-> env]

\* No supabase directory.
NoSupabase ==
    [Supabase(EmptyTree, EmptyTree, "off", Absent(""), FALSE)
        EXCEPT !.exists = FALSE]

\* The directory after the first n >= 1 commands of a fresh clone of the
\* tree: git clone --no-checkout fetches the commit and writes no file and
\* no index entry, git checkout master writes both.
Cloned(n, tree) ==
    IF n = CloneCommands
    THEN Supabase(tree, tree, SparseAfter(n), tree.compose, FALSE)
    ELSE Supabase(tree, EmptyTree, SparseAfter(n), Absent(""), FALSE)

\* The other files of docker/ are on disk: git wrote them and nothing
\* removes them.
OtherOnDisk(s) == s.index.docker /\ InCone(s.sparse)

\* os.path.exists("supabase"), and supabase/docker, which exists when it
\* holds a file.
RepoOf(s) ==
    IF ~s.exists THEN "absent"
    ELSE IF OtherOnDisk(s) \/ s.compose.exists \/ s.env THEN "ready"
    ELSE "partial"

\* What the fast-forward of git pull does with one path: I is the index
\* entry, H the entry of HEAD, M the entry of the fetched commit; clean says
\* that git finds nothing on disk it would not overwrite.
MergePath(I, H, M, clean) ==
    IF H = M THEN "keep"
    ELSE IF ~I.exists
    THEN IF ~H.exists THEN (IF clean THEN "take" ELSE "refuse")
         ELSE IF ~M.exists THEN "keep"
         ELSE "refuse"
    ELSE IF I = M THEN "keep"
    ELSE IF I = H /\ clean THEN (IF M.exists THEN "take" ELSE "drop")
    ELSE "refuse"

\* The other files of docker/ as one entry.
Entry(docker) == File(docker, "")

\* The index entry after the merge of one path.
MergedEntry(I, M, verdict) ==
    IF verdict = "take" THEN M
    ELSE IF verdict = "drop" THEN Absent("")
    ELSE I

\* git does not hold back for the compose file on disk: the file is outside
\* the cone, or as the index has it, or unknown to the index with
\* sparse-checkout on.
Clean(s) ==
    \/ ~InCone(s.sparse)
    \/ s.compose = s.index.compose
    \/ (~s.index.compose.exists /\ s.sparse # "off")

\* git pull when the fetch brings the tree: refused when a path would lose
\* a change, and then nothing is touched; otherwise HEAD moves to the tree,
\* the index follows path by path and, inside the cone, so does the disk.
GitPull(s, tree) ==
    LET other == MergePath(Entry(s.index.docker), Entry(s.head.docker),
                           Entry(tree.docker), TRUE)
        file  == MergePath(s.index.compose, s.head.compose, tree.compose,
                           Clean(s))
        index == Tree(MergedEntry(Entry(s.index.docker), Entry(tree.docker),
                                  other).exists,
                      MergedEntry(s.index.compose, tree.compose, file))
        disk  == IF InCone(s.sparse)
                 THEN MergedEntry(s.compose, tree.compose, file)
                 ELSE s.compose
    IN  IF other = "refuse" \/ file = "refuse"
        THEN [ok |-> FALSE, after |-> s]
        ELSE [ok |-> TRUE,
              after |-> Supabase(tree, index, s.sparse, disk, s.env)]

\* The compose file as an earlier run of the rewriter left it.
AsLeftByRewriter(file) ==
    IF file.exists THEN File(TRUE, FixHealthcheck(file.text).content) ELSE file

\* The directory after the patch steps of main, which follow a successful
\* clone_supabase_repo: prepare_supabase_env fails and the run ends, or it
\* copies .env and the rewriter runs on the compose file.
AfterPatches(s) ==
    {s} \cup (IF RepoOf(s) = "ready"
              THEN {[s EXCEPT !.env = TRUE,
                              !.compose = AsLeftByRewriter(s.compose)]}
              ELSE {})

\* The directories one run of main can leave of the directory s.
RunLeaves(s) ==
    IF ~s.exists
    THEN {NoSupabase}
         \cup {Cloned(n, tree) :
                  n \in 1..(CloneCommands - 1), tree \in UpstreamTrees}
         \cup UNION {AfterPatches(Cloned(CloneCommands, tree)) :
                        tree \in UpstreamTrees}
    ELSE {s}
         \cup UNION {AfterPatches(GitPull(s, tree).after) :
                        tree \in {t \in UpstreamTrees : GitPull(s, t).ok}}

RECURSIVE LeftByRuns(_)
LeftByRuns(dirs) ==
    LET more == dirs \cup UNION {RunLeaves(s) : s \in dirs}
    IN  IF more = dirs THEN dirs ELSE LeftByRuns(more)

\* The directories any number of earlier runs of main can have left.
EarlierRuns == LeftByRuns({NoSupabase})

Init ==
    /\ pc = "clone_supabase_repo"
    /\ trace = << >>
    /\ system \in Systems
    /\ \E s \in EarlierRuns :
          /\ repo = RepoOf(s)
          /\ supabase_compose = s.compose
          /\ supabase_env = s.env
          /\ supabase_head = s.head
          /\ supabase_index = s.index
          /\ sparse_checkout = s.sparse
    /\ \/ settings_base = Absent(<< >>) /\ settings = Absent(<< >>)
       \/ /\ settings_base = File(TRUE, SettingsBase)
          /\ settings \in {Absent(<< >>), File(TRUE, SettingsBase),
                           File(TRUE, SettingsKeyed)}
    /\ compose \in {Absent(<< >>)} \cup {File(TRUE, f) : f \in ComposeFiles}
    /\ secret_log = << >>
    /\ toggle_log = << >>
    /\ health_log = << >>

(***************************************************************************)
(* The three patch functions as calls: each reads and writes its file and  *)
(* leaves a record of the call.                                            *)
(***************************************************************************)

\* generate_searxng_secret_key().  copy_ok: shutil.copyfile succeeded;
\* cmd_ok: every command of the try block exited with status 0.
GenerateSecretOutcome(copy_ok, cmd_ok) ==
    IF ~settings_base.exists THEN "no_base"
    ELSE IF ~settings.exists /\ ~copy_ok THEN "copy_failed"
    ELSE IF ~cmd_ok THEN "command_failed"
    ELSE "ok"

generate_searxng_secret_key ==
    \E copy_ok \in BOOLEAN, cmd_ok \in BOOLEAN, key \in Keys :
        LET outcome == GenerateSecretOutcome(copy_ok, cmd_ok)
            copied  == IF settings.exists THEN settings
                       ELSE File(TRUE, settings_base.text)
        IN  /\ settings' =
                 CASE outcome = "no_base" -> settings
                   [] outcome = "copy_failed" -> settings
                   [] outcome = "command_failed" -> copied
                   [] outcome = "ok" ->
                        File(TRUE, Substitute(system, copied.text, key))
            /\ secret_log' = Push(secret_log,
                 [outcome |-> outcome,
                  key     |-> IF outcome = "ok" THEN key ELSE "",
                  before  |-> settings])

\* check_and_fix_docker_compose_for_searxng().  The probe runs only when
\* the listing named a container.
check_and_fix_docker_compose_for_searxng ==
    IF ~compose.exists
    THEN UNCHANGED << compose, toggle_log >>
    ELSE \E ps \in PsResults :
         \E probe \in (IF ~ps.raised /\ ContainerFound(ps)
                       THEN ProbeResults ELSE {NotRun}) :
            LET is_first_run == IsFirstRun(ps, probe)
                r == SecondPass(compose.text, is_first_run)
            IN  /\ compose' = File(TRUE, r.lines)
                /\ toggle_log' = Push(toggle_log,
                     [ps |-> ps, probe |-> probe,
                      is_first_run |-> is_first_run,
                      before |-> compose.text, wrote |-> r.wrote])

\* fix_supabase_realtime_healthcheck().
fix_supabase_realtime_healthcheck ==
    IF ~supabase_compose.exists
    THEN UNCHANGED << supabase_compose, health_log >>
    ELSE LET r == FixHealthcheck(supabase_compose.text)
         IN  /\ supabase_compose' = File(TRUE, r.content)
             /\ health_log' = Push(health_log,
                  [outcome |-> r.outcome, wrote |-> r.wrote,
                   before |-> supabase_compose.text])

(***************************************************************************)
(* main(): one run of the script.                                          *)
(***************************************************************************)

Did(step, ok) == [step |-> step, ok |-> ok]

\* run_command with check=False: the exit status is ignored.
AfterCommand_Unchecked(ok, next) == next

\* run_command: subprocess.run(check=True) raises on a non-zero exit and
\* nothing in main catches it, so the statement after it is reached only on
\* success.
AfterCommand(ok, next) == IF ok THEN next ELSE "aborted"

\* The supabase directory as the variables have it.
Current ==
    IF repo = "absent" THEN NoSupabase
    ELSE Supabase(supabase_head, supabase_index, sparse_checkout,
                  supabase_compose, supabase_env)

\* The supabase directory becomes s.
Becomes(s) ==
    /\ repo' = RepoOf(s)
    /\ supabase_compose' = s.compose
    /\ supabase_env' = s.env
    /\ supabase_head' = s.head
    /\ supabase_index' = s.index
    /\ sparse_checkout' = s.sparse

\* clone_supabase_repo(): four git commands for a fresh clone (n of them
\* succeed; a failed git clone leaves no directory), one git pull otherwise
\* (it can fail for reasons of its own, and fails when git refuses).
CloneStep ==
    /\ pc = "clone_supabase_repo"
    /\ \/ /\ repo = "absent"
          /\ \E n \in 0..CloneCommands, tree \in UpstreamTrees :
                /\ IF n = 0
                   THEN UNCHANGED << repo, supabase_compose, supabase_env, git >>
                   ELSE Becomes(Cloned(n, tree))
                /\ pc' = AfterCommand(n = CloneCommands, "prepare_supabase_env")
                /\ trace' = Append(trace, Did("clone_supabase_repo", n = CloneCommands))
       \/ /\ repo # "absent"
          /\ \E tree \in UpstreamTrees :
                /\ GitPull(Current, tree).ok
                /\ Becomes(GitPull(Current, tree).after)
                /\ pc' = AfterCommand(TRUE, "prepare_supabase_env")
                /\ trace' = Append(trace, Did("clone_supabase_repo", TRUE))
       \/ /\ repo # "absent"
          /\ pc' = AfterCommand(FALSE, "prepare_supabase_env")
          /\ trace' = Append(trace, Did("clone_supabase_repo", FALSE))
          /\ UNCHANGED << repo, supabase_compose, supabase_env, git >>
    /\ UNCHANGED << system, settings_base, settings, compose, logs >>

\* prepare_supabase_env(): shutil.copyfile raises when supabase/docker is
\* not there or the root .env cannot be read, and then writes nothing.
PrepareEnvStep ==
    /\ pc = "prepare_supabase_env"
    /\ \E ok \in (IF repo = "ready" THEN BOOLEAN ELSE {FALSE}) :
          /\ supabase_env' = (supabase_env \/ ok)
          /\ pc' = AfterCommand(ok, "generate_searxng_secret_key")
          /\ trace' = Append(trace, Did("prepare_supabase_env", ok))
    /\ UNCHANGED << system, repo, supabase_compose, git, settings_base,
                    settings, compose, logs >>

GenerateSecretStep ==
    /\ pc = "generate_searxng_secret_key"
    /\ generate_searxng_secret_key
    /\ pc' = "check_and_fix_docker_compose_for_searxng"
    /\ trace' = Append(trace, Did("generate_searxng_secret_key",
                                  Last(secret_log').outcome # "command_failed"))
    /\ UNCHANGED << system, repo, supabase_compose, supabase_env, git,
                    settings_base, compose, toggle_log, health_log >>

ComposeFixStep ==
    /\ pc = "check_and_fix_docker_compose_for_searxng"
    /\ check_and_fix_docker_compose_for_searxng
    /\ pc' = "fix_supabase_realtime_healthcheck"
    /\ trace' = Append(trace, Did("check_and_fix_docker_compose_for_searxng", TRUE))
    /\ UNCHANGED << system, repo, supabase_compose, supabase_env, git,
                    settings_base, settings, secret_log, health_log >>

HealthcheckFixStep ==
    /\ pc = "fix_supabase_realtime_healthcheck"
    /\ fix_supabase_realtime_healthcheck
    /\ pc' = "stop_existing_containers"
    /\ trace' = Append(trace, Did("fix_supabase_realtime_healthcheck", TRUE))
    /\ UNCHANGED << system, repo, supabase_env, git, settings_base,
                    settings, compose, secret_log, toggle_log >>

\* A step that is one run_command call.
CommandStep(step, next) ==
    /\ pc = step
    /\ \E ok \in BOOLEAN :
          /\ pc' = AfterCommand(ok, next)
          /\ trace' = Append(trace, Did(step, ok))
    /\ UNCHANGED << system, files, logs >>

StopStep == CommandStep("stop_existing_containers", "start_supabase")

\* start_supabase followed at once by start_local_ai, the pause left out.
StartSupabaseStep_NoPause == CommandStep("start_supabase", "start_local_ai")

StartSupabaseStep == CommandStep("start_supabase", "sleep")

\* time.sleep(10)
SleepStep ==
    /\ pc = "sleep"
    /\ pc' = "start_local_ai"
    /\ trace' = Append(trace, Did("sleep", TRUE))
    /\ UNCHANGED << system, files, logs >>

StartLocalAiStep == CommandStep("start_local_ai", "done")

Next ==
    \/ CloneStep
    \/ PrepareEnvStep
    \/ GenerateSecretStep
    \/ ComposeFixStep
    \/ HealthcheckFixStep
    \/ StopStep
    \/ StartSupabaseStep
    \/ SleepStep
    \/ StartLocalAiStep

\* One run of main() from any of the initial states.
Spec == Init /\ [][Next]_vars

(***************************************************************************)
(* Each patch function called again and again on its own, as successive    *)
(* runs of the script call it.                                             *)
(***************************************************************************)

SecretCall ==
    /\ generate_searxng_secret_key
    /\ UNCHANGED << pc, trace, system, repo, supabase_compose, supabase_env,
                    git, settings_base, compose, toggle_log, health_log >>

ToggleCall ==
    /\ check_and_fix_docker_compose_for_searxng
    /\ UNCHANGED << pc, trace, system, repo, supabase_compose, supabase_env,
                    git, settings_base, settings, secret_log, health_log >>

HealthCall ==
    /\ fix_supabase_realtime_healthcheck
    /\ UNCHANGED << pc, trace, system, repo, supabase_env, git,
                    settings_base, settings, compose, secret_log, toggle_log >>

\* The toggle reads docker-compose.yml and the container runtime only: its
\* calls are explored with the supabase and searxng directories empty.
ToggleInit == Init /\ repo = "absent" /\ ~settings_base.exists

SecretSpec == Init /\ [][SecretCall]_vars
ToggleSpec == ToggleInit /\ [][ToggleCall]_vars
HealthSpec == Init /\ [][HealthCall]_vars

(***************************************************************************)
(* What the specification calls the service's block and the state of its   *)
(* hardening directive, read off the text of a compose file.               *)
(***************************************************************************)

\* The 1-based number of the service's start marker line, 0 without one.
MarkerLine(lines) ==
    LET hits == {i \in 1..Len(lines) : Contains(lines[i], ServiceMarker)}
    IN  IF hits = {} THEN 0 ELSE MinOf(hits)

\* The first non-blank line after the marker indented at or below it, or
\* one past the end of the file.
BlockEnd(lines) ==
    LET m == MarkerLine(lines)
        ends == {j \in (m + 1)..Len(lines) :
                    /\ StripNonEmpty(lines[j])
                    /\ LeadingSpace(lines[j]) <= LeadingSpace(lines[m])}
    IN  IF ends = {} THEN Len(lines) + 1 ELSE MinOf(ends)

InBlock(lines, i) ==
    /\ MarkerLine(lines) # 0
    /\ MarkerLine(lines) < i
    /\ i < BlockEnd(lines)

ActiveKeyLine(line) == Contains(line, KeyToken) /\ ~StripStartsWithHash(line)
ActiveValueLine(line) ==
    /\ Contains(line, ValueToken)
    /\ ~StripStartsWithHash(line)
    /\ ~Contains(line, KeyToken)
CommentedKeyLine(line) == Contains(line, KeyCommented)
CommentedValueLine(line) == Contains(line, ValueCommented)

\* The lines of the block in each of the four forms.
ActiveKeyLines(lines) ==
    {i \in 1..Len(lines) : InBlock(lines, i) /\ ActiveKeyLine(lines[i])}
ActiveValueLines(lines) ==
    {i \in 1..Len(lines) : InBlock(lines, i) /\ ActiveValueLine(lines[i])}
CommentedKeyLines(lines) ==
    {i \in 1..Len(lines) : InBlock(lines, i) /\ CommentedKeyLine(lines[i])}
CommentedValueLines(lines) ==
    {i \in 1..Len(lines) : InBlock(lines, i) /\ CommentedValueLine(lines[i])}

\* active: a key line and a value line, none commented; commented: the
\* reverse; none: neither line in any form; mixed: anything else.
DirectiveState(lines) ==
    LET ak == ActiveKeyLines(lines) # {}
        av == ActiveValueLines(lines) # {}
        ck == CommentedKeyLines(lines) # {}
        cv == CommentedValueLines(lines) # {}
    IN  IF ak /\ av /\ ~ck /\ ~cv THEN "active"
        ELSE IF ck /\ cv /\ ~ak /\ ~av THEN "commented"
        ELSE IF ~ak /\ ~av /\ ~ck /\ ~cv THEN "none"
        ELSE "mixed"

\* An annotated comment anywhere in the file.
AnyCommented(lines) ==
    \E i \in 1..Len(lines) :
        CommentedKeyLine(lines[i]) \/ CommentedValueLine(lines[i])

\* The docker exec probe printed the word it prints when the marker file
\* exists.
MarkerReported(probe) == probe.ran /\ ~probe.raised /\ probe.stdout = "found\n"

\* The listing succeeded and named a container.
ContainerListed(ps) == ~ps.raised /\ ContainerFound(ps)

(***************************************************************************)
(* C1.  First-run classification: a call is classified not-first-run if    *)
(* and only if a running container was listed and the probe reported that  *)
(* the marker file exists; every other outcome is first-run.               *)
(***************************************************************************)
C1_Classification ==
    \A i \in 1..Len(toggle_log) :
        (~toggle_log[i].is_first_run)
            <=> (ContainerListed(toggle_log[i].ps) /\ MarkerReported(toggle_log[i].probe))

(***************************************************************************)
(* C2.  After the toggle has run on an existing compose file the directive *)
(* of the service matches the classification: under first-run the key line *)
(* and the value line of the block are both commented with the annotation, *)
(* under not-first-run no annotated comment is left in the file and both   *)
(* lines are active.                                                       *)
(***************************************************************************)
C2_DirectiveMatchesClassification ==
    toggle_log # << >> =>
        IF Last(toggle_log).is_first_run
        THEN DirectiveState(compose.text) = "commented"
        ELSE ~AnyCommented(compose.text) /\ DirectiveState(compose.text) = "active"

\* Both transitions have happened: the last call restored what the call
\* before it commented out.
C2_Witness ==
    /\ Len(toggle_log) >= 2
    /\ Prev(toggle_log).is_first_run /\ Prev(toggle_log).wrote
    /\ ~Last(toggle_log).is_first_run /\ Last(toggle_log).wrote
    /\ DirectiveState(Last(toggle_log).before) = "commented"
    /\ DirectiveState(compose.text) = "active"

(***************************************************************************)
(* C3.  Toggle idempotence: when the directive is already in the state the *)
(* classification asks for, the call changes no line and does not write    *)
(* the file.                                                               *)
(***************************************************************************)
C3_NoChangeWhenMatching ==
    toggle_log # << >> =>
        LET e == Last(toggle_log)
            matching == IF e.is_first_run
                        THEN DirectiveState(e.before) = "commented"
                        ELSE DirectiveState(e.before) = "active"
                             /\ ~AnyCommented(e.before)
        IN  matching => (compose.text = e.before /\ ~e.wrote)

(***************************************************************************)
(* C4.  Round trip: from a file whose directive is active, the first-run   *)
(* transition followed by the not-first-run transition gives back the key  *)
(* line and the value line character for character.                        *)
(***************************************************************************)
C4_RoundTrip ==
    ( /\ Len(toggle_log) >= 2
      /\ Prev(toggle_log).is_first_run
      /\ ~Last(toggle_log).is_first_run
      /\ DirectiveState(Prev(toggle_log).before) = "active" )
    => LET original == Prev(toggle_log).before
           pair == ActiveKeyLines(original) \cup ActiveValueLines(original)
       IN  /\ Len(compose.text) = Len(original)
           /\ \A i \in pair : compose.text[i] = original[i]

\* The round trip was made, and its middle state differed from its ends.
C4_Witness ==
    /\ Len(toggle_log) >= 2
    /\ Prev(toggle_log).is_first_run /\ ~Last(toggle_log).is_first_run
    /\ DirectiveState(Prev(toggle_log).before) = "active"
    /\ Last(toggle_log).before # Prev(toggle_log).before
    /\ compose.text = Prev(toggle_log).before

(***************************************************************************)
(* C9.  Compose-file invariant: whatever calls of the toggle have been     *)
(* made, the directive of the service is either active on both lines or    *)
(* commented on both lines, never one of each.                             *)
(***************************************************************************)
C9_NeverMixed ==
    compose.exists => DirectiveState(compose.text) \in {"active", "commented"}

\* Two calls wrote the file, back to back.
C9_Witness ==
    /\ Len(toggle_log) >= 2
    /\ Prev(toggle_log).wrote /\ Last(toggle_log).wrote
    /\ ~Prev(toggle_log).is_first_run /\ Last(toggle_log).is_first_run

(***************************************************************************)
(* C10.  Scope of the first-run transition: a first-run call leaves every  *)
(* line outside the service's block as it was.                             *)
(***************************************************************************)
C10_OnlyBlockLinesChange ==
    toggle_log # << >> =>
        LET e == Last(toggle_log)
        IN  e.is_first_run =>
               /\ Len(compose.text) = Len(e.before)
               /\ \A i \in 1..Len(e.before) :
                     ~InBlock(e.before, i) => compose.text[i] = e.before[i]

(***************************************************************************)
(* C5.  Health-check rewrite postcondition: once the rewriter has found    *)
(* the three trigger substrings and both markers, the file contains the    *)
(* corrected block with the HEAD request against the root URL and the      *)
(* obsolete endpoint path nowhere, and the next call finds nothing to do   *)
(* and does not write.                                                     *)
(***************************************************************************)
C5_RewritePostcondition ==
    /\ (health_log # << >> /\ Last(health_log).outcome = "rewritten")
          => /\ Contains(supabase_compose.text, new_healthcheck)
             /\ Contains(supabase_compose.text, RootUrl)
             /\ ~Contains(supabase_compose.text, ObsoletePath)
    /\ (Len(health_log) >= 2 /\ Prev(health_log).outcome = "rewritten")
          => /\ Last(health_log).outcome = "not_applicable"
             /\ ~Last(health_log).wrote

(***************************************************************************)
(* Secret provisioning.                                                    *)
(***************************************************************************)

NoPlaceholder(lines) == \A i \in 1..Len(lines) : ~Contains(lines[i], Placeholder)

\* The number of non-overlapping occurrences of sub in s.
RECURSIVE CountIn(_, _)
CountIn(s, sub) ==
    LET i == Find(s, sub, 0)
    IN  IF i = -1 THEN 0 ELSE 1 + CountIn(Slice(s, i + Len(sub), Len(s)), sub)

RECURSIVE Occurrences(_, _)
Occurrences(lines, sub) ==
    IF lines = << >> THEN 0
    ELSE CountIn(Head(lines), sub) + Occurrences(Tail(lines), sub)

HexDigits ==
    {"0", "1", "2", "3", "4", "5", "6", "7", "8", "9", "a", "b", "c", "d", "e", "f"}

IsHexToken(key) ==
    /\ Len(key) = 64
    /\ \A i \in 0..(Len(key) - 1) : CharAt(key, i) \in HexDigits

\* The text the substitution of the last call worked on.
SubstitutionSource ==
    IF Last(secret_log).before.exists
    THEN Last(secret_log).before.text
    ELSE settings_base.text

(***************************************************************************)
(* C6 as stated.  Whenever the base template exists, after                 *)
(* generate_searxng_secret_key the settings file exists and holds no       *)
(* occurrence of the placeholder.                                          *)
(***************************************************************************)
C6_AfterEveryCall ==
    (secret_log # << >> /\ settings_base.exists)
        => (settings.exists /\ NoPlaceholder(settings.text))

(***************************************************************************)
(* What the calls that do succeed achieve.  When the copy and the           *)
(* commands of the call succeed, the settings file exists afterwards,      *)
(* holds no occurrence of the placeholder and holds the generated          *)
(* 64-hex-digit token at least once for every occurrence the placeholder   *)
(* had; and a call that follows a successful call leaves the settings file *)
(* exactly as that call left it, whatever token it generates.              *)
(***************************************************************************)
C6_AfterSuccessfulCall ==
    /\ (secret_log # << >> /\ Last(secret_log).outcome = "ok")
          => /\ settings.exists
             /\ NoPlaceholder(settings.text)
             /\ IsHexToken(Last(secret_log).key)
             /\ Occurrences(settings.text, Last(secret_log).key)
                   >= Occurrences(SubstitutionSource, Placeholder)
    /\ (Len(secret_log) >= 2 /\ Prev(secret_log).outcome = "ok")
          => settings = Last(secret_log).before

\* Two successful calls with different tokens, the first of which created
\* the settings file from the template: the file holds the first token.
C6_Witness ==
    /\ Len(secret_log) >= 2
    /\ Prev(secret_log).outcome = "ok" /\ ~Prev(secret_log).before.exists
    /\ Last(secret_log).outcome = "ok"
    /\ Last(secret_log).key # Prev(secret_log).key
    /\ Occurrences(settings.text, Prev(secret_log).key) >= 2
    /\ Occurrences(settings.text, Last(secret_log).key) = 0

(***************************************************************************)
(* main().                                                                 *)
(***************************************************************************)

\* The steps of main that are one or more run_command calls.
RunCommandSteps ==
    {"clone_supabase_repo", "stop_existing_containers", "start_supabase",
     "start_local_ai"}

\* The positions of the trace at which a step was executed.
Positions(step) == {i \in 1..Len(trace) : trace[i].step = step}

\* The step at position i failed.
FailedAt(i) == ~trace[i].ok

(***************************************************************************)
(* C7 as stated.  A failure of the clone or pull command, of an            *)
(* orchestration up or down command or of the secret-generation command    *)
(* ends the run: no later step of main executes.                           *)
(***************************************************************************)
C7_EveryCommandFailureAborts ==
    \A i \in 1..Len(trace) :
        ( /\ trace[i].step \in RunCommandSteps \cup {"generate_searxng_secret_key"}
          /\ FailedAt(i) )
        => (i = Len(trace) /\ pc = "aborted")

(***************************************************************************)
(* C7 as amended.  A failure of the clone or pull command or of an         *)
(* orchestration up or down command ends the run: no later step of main    *)
(* executes.  A failure of the secret-generation command is caught inside  *)
(* generate_searxng_secret_key and the run goes on with the compose        *)
(* toggle.                                                                 *)
(***************************************************************************)
C7_RunCommandFailureAborts ==
    \A i \in 1..Len(trace) :
        /\ (trace[i].step \in RunCommandSteps /\ FailedAt(i))
              => (i = Len(trace) /\ pc = "aborted")
        /\ (trace[i].step = "generate_searxng_secret_key" /\ FailedAt(i))
              => IF i = Len(trace)
                 THEN pc = "check_and_fix_docker_compose_for_searxng"
                 ELSE trace[i + 1].step = "check_and_fix_docker_compose_for_searxng"

\* The secret-generation command failed and both stacks were started.
C7_Witness ==
    /\ pc = "done"
    /\ \E i \in Positions("generate_searxng_secret_key") : FailedAt(i)
    /\ \E i \in Positions("start_supabase") : trace[i].ok
    /\ \E i \in Positions("start_local_ai") : trace[i].ok

(***************************************************************************)
(* C8.  Orchestration order: stack B is started only after the stop of the *)
(* existing containers succeeded, then the start of stack A succeeded,     *)
(* then the pause elapsed; a failed step is the last step of the run and   *)
(* no step is executed twice; both patch passes come before the stop.      *)
(***************************************************************************)
C8_OrchestrationOrder ==
    /\ \A i \in Positions("start_local_ai") :
          /\ i > 3
          /\ trace[i - 3] = Did("stop_existing_containers", TRUE)
          /\ trace[i - 2] = Did("start_supabase", TRUE)
          /\ trace[i - 1] = Did("sleep", TRUE)
    /\ \A i \in 1..Len(trace) :
          ( /\ trace[i].step \in {"stop_existing_containers", "start_supabase",
                                  "sleep", "start_local_ai"}
            /\ FailedAt(i) ) => i = Len(trace)
    /\ \A i, j \in 1..Len(trace) : trace[i].step = trace[j].step => i = j
    /\ \A i \in Positions("stop_existing_containers") :
          /\ i > 2
          /\ trace[i - 2].step = "check_and_fix_docker_compose_for_searxng"
          /\ trace[i - 1].step = "fix_supabase_realtime_healthcheck"

\* A run that started stack B.
C8_Witness ==
    /\ pc = "done"
    /\ Len(trace) > 3
    /\ Last(trace) = Did("start_local_ai", TRUE)
    /\ trace[Len(trace) - 1].step = "sleep"

====
